---- MODULE Spec2Model ----
(***************************************************************************)
(* A model of the JSON tokenizer (src/src/tokenize.rs) and of the          *)
(* recursive-descent parser (src/src/parse.rs).                            *)
(*                                                                         *)
(* A character is a one-character string; a text is a sequence of          *)
(* characters.  Cursors are 0-based as in the source, so chars[i] of the   *)
(* source is At(chars, i) here.  An indexing past the end of a Vec or a    *)
(* slice, and todo!(), panic in Rust: every function of the model returns  *)
(* a record whose field st is "Ok", "Err" or "Panic".                      *)
(***************************************************************************)
EXTENDS Integers, Sequences, FiniteSets, TLC

VARIABLES
    input,   \* the characters given to tokenize
    index,   \* tokenize's cursor into input
    tokens,  \* the tokens pushed so far / the tokens given to parse_tokens
    token,   \* the token make_token returned, not pushed yet
    pc,      \* "tokenize" | "push" | "parse_tokens" | "done"
    tres,    \* the outcome of tokenize
    pres,    \* the outcome of parse_tokens
    pidx     \* the parser's cursor after parse_tokens returned

vars == <<input, index, tokens, token, pc, tres, pres, pidx>>

----------------------------------------------------------------------------
(* Characters *)

\* Control characters that have no TLA+ string escape are named by their
\* code point in decimal.
BS == "chr(8)"
FF == "chr(12)"
DC2 == "chr(18)"

At(chars, i) == chars[i + 1]

IsAsciiWhitespace(c) == c \in {" ", "\t", "\n", FF, "\r"}

IsAsciiDigit(c) == c \in {"0", "1", "2", "3", "4", "5", "6", "7", "8", "9"}

DigitValue(c) ==
    CASE c = "0" -> 0 [] c = "1" -> 1 [] c = "2" -> 2 [] c = "3" -> 3
      [] c = "4" -> 4 [] c = "5" -> 5 [] c = "6" -> 6 [] c = "7" -> 7
      [] c = "8" -> 8 [] c = "9" -> 9

----------------------------------------------------------------------------
(* Tokens and tokenizer results *)

Tok(type) == [type |-> type, text |-> <<>>, num |-> <<0, 0>>]

\* A number is <<m, s>>, standing for m / 10^s, with s as small as possible.
TokNumber(num) == [type |-> "Number", text |-> <<>>, num |-> num]

TokString(text) == [type |-> "String", text |-> text, num |-> <<0, 0>>]

NoToken == Tok("None")

TokenizeError(kind, ch) == [kind |-> kind, ch |-> ch]

NoError == TokenizeError("None", "")

LexOk(tok, idx) == [st |-> "Ok", err |-> NoError, tok |-> tok, idx |-> idx]

LexErr(kind) ==
    [st |-> "Err", err |-> TokenizeError(kind, ""), tok |-> NoToken, idx |-> 0]

LexErrChar(kind, ch) ==
    [st |-> "Err", err |-> TokenizeError(kind, ch), tok |-> NoToken, idx |-> 0]

LexPanic == [st |-> "Panic", err |-> NoError, tok |-> NoToken, idx |-> 0]

----------------------------------------------------------------------------
(* tokenize.rs: the literal keywords *)

RECURSIVE ExpectChars(_, _, _)
ExpectChars(chars, i, expected) ==
    IF expected = <<>> THEN LexOk(NoToken, i)
    ELSE IF i >= Len(chars) THEN LexPanic
    ELSE IF Head(expected) # At(chars, i) THEN LexErr("UnfinishedLiteralValue")
    ELSE ExpectChars(chars, i + 1, Tail(expected))

tokenize_null(chars, i) ==
    LET r == ExpectChars(chars, i, <<"n", "u", "l", "l">>)
    IN  IF r.st = "Ok" THEN LexOk(Tok("Null"), r.idx - 1) ELSE r

tokenize_false(chars, i) ==
    LET r == ExpectChars(chars, i, <<"f", "a", "l", "s", "e">>)
    IN  IF r.st = "Ok" THEN LexOk(Tok("False"), r.idx - 1) ELSE r

tokenize_true(chars, i) ==
    LET r == ExpectChars(chars, i, <<"t", "r", "u", "e">>)
    IN  IF r.st = "Ok" THEN LexOk(Tok("True"), r.idx - 1) ELSE r

----------------------------------------------------------------------------
(* tokenize.rs: numbers *)

RECURSIVE DigitsValue(_)
DigitsValue(ds) ==
    IF ds = <<>> THEN 0
    ELSE 10 * DigitsValue(SubSeq(ds, 1, Len(ds) - 1)) + DigitValue(ds[Len(ds)])

RECURSIVE Normalize(_)
Normalize(num) ==
    IF num[2] > 0 /\ num[1] % 10 = 0
    THEN Normalize(<<num[1] \div 10, num[2] - 1>>)
    ELSE num

\* str::parse::<f64> on a text of ASCII digits with at most one '.': it
\* fails exactly when the text holds no digit.
ParseF64(s) ==
    LET digits == SelectSeq(s, IsAsciiDigit)
        dots   == {k \in 1..Len(s) : s[k] = "."}
        scale  == IF dots = {} THEN 0 ELSE Len(s) - (CHOOSE k \in dots : TRUE)
    IN  IF digits = <<>>
        THEN [ok |-> FALSE, num |-> <<0, 0>>]
        ELSE [ok |-> TRUE, num |-> Normalize(<<DigitsValue(digits), scale>>)]

RECURSIVE ScanFloat(_, _, _, _)
ScanFloat(chars, cur_idx, unparsed_num, has_decimal) ==
    IF cur_idx < Len(chars)
    THEN LET ch == At(chars, cur_idx)
         IN  IF IsAsciiDigit(ch)
             THEN ScanFloat(chars, cur_idx + 1, Append(unparsed_num, ch), has_decimal)
             ELSE IF ch = "." /\ ~has_decimal
             THEN ScanFloat(chars, cur_idx + 1, Append(unparsed_num, ch), TRUE)
             ELSE [str |-> unparsed_num, idx |-> cur_idx]
    ELSE [str |-> unparsed_num, idx |-> cur_idx]

\* make_token calls it on a digit, so the scan advances at least once and
\* the `*cur_idx -= 1` that follows cannot underflow.
tokenize_float(chars, cur_idx) ==
    LET s == ScanFloat(chars, cur_idx, <<>>, FALSE)
        p == ParseF64(s.str)
    IN  IF p.ok THEN LexOk(TokNumber(p.num), s.idx - 1)
        ELSE LexErr("ParseNumberError")

----------------------------------------------------------------------------
(* tokenize.rs: strings *)

RECURSIVE ScanStringSticky(_, _, _, _)
ScanStringSticky(chars, cur_idx, string, is_escaping) ==
    LET i == cur_idx + 1
    IN  IF i >= Len(chars) THEN LexErr("UnclosedQuotes")
        ELSE LET ch == At(chars, i)
             IN  IF ch = "\"" /\ ~is_escaping
                 THEN LexOk(TokString(string), i)
                 ELSE ScanStringSticky(chars, i, Append(string, ch), ch = "\\")

\* tokenize_string with `'\\' => is_escaping = true`: a backslash always
\* escapes what follows, also when it is itself escaped.
tokenize_string_sticky(chars, cur_idx) ==
    ScanStringSticky(chars, cur_idx, <<>>, FALSE)

RECURSIVE ScanString(_, _, _, _)
ScanString(chars, cur_idx, string, is_escaping) ==
    LET i == cur_idx + 1
    IN  IF i >= Len(chars) THEN LexErr("UnclosedQuotes")
        ELSE LET ch == At(chars, i)
             IN  IF ch = "\"" /\ ~is_escaping
                 THEN LexOk(TokString(string), i)
                 ELSE ScanString(chars, i, Append(string, ch),
                                 IF ch = "\\" THEN ~is_escaping ELSE FALSE)

tokenize_string(chars, cur_idx) ==
    ScanString(chars, cur_idx, <<>>, FALSE)

----------------------------------------------------------------------------
(* tokenize.rs: make_token and tokenize *)

\* The loop of make_token: `ch = chars[*index]` panics past the end.
RECURSIVE SkipWhitespace(_, _)
SkipWhitespace(chars, i) ==
    IF i >= Len(chars) THEN LexPanic
    ELSE IF IsAsciiWhitespace(At(chars, i))
    THEN IF i + 1 > Len(chars) THEN LexErr("UnexpectedEof")
         ELSE SkipWhitespace(chars, i + 1)
    ELSE LexOk(NoToken, i)

make_token(chars, index0) ==
    LET ws == SkipWhitespace(chars, index0)
    IN  IF ws.st # "Ok" THEN ws
        ELSE LET i  == ws.idx
                 ch == At(chars, i)
             IN  CASE ch = "[" -> LexOk(Tok("LeftBracket"), i)
                   [] ch = "]" -> LexOk(Tok("RightBracket"), i)
                   [] ch = "{" -> LexOk(Tok("LeftBrace"), i)
                   [] ch = "}" -> LexOk(Tok("RightBrace"), i)
                   [] ch = "," -> LexOk(Tok("Comma"), i)
                   [] ch = ":" -> LexOk(Tok("Colon"), i)
                   [] ch = "n" -> tokenize_null(chars, i)
                   [] ch = "t" -> tokenize_true(chars, i)
                   [] ch = "f" -> tokenize_false(chars, i)
                   [] IsAsciiDigit(ch) -> tokenize_float(chars, i)
                   [] ch = "\"" -> tokenize_string(chars, i)
                   [] OTHER -> LexErrChar("CharNotRecognized", ch)

TokenizeOk(toks) == [st |-> "Ok", err |-> NoError, tokens |-> toks]

RECURSIVE TokenizeLoop(_, _, _)
TokenizeLoop(chars, i, toks) ==
    IF i < Len(chars)
    THEN LET r == make_token(chars, i)
         IN  IF r.st = "Ok"
             THEN TokenizeLoop(chars, r.idx + 1, Append(toks, r.tok))
             ELSE [st |-> r.st, err |-> r.err, tokens |-> <<>>]
    ELSE TokenizeOk(toks)

tokenize(chars) == TokenizeLoop(chars, 0, <<>>)

----------------------------------------------------------------------------
(* lib.rs: Value, and the parser's results *)

NoNum == <<0, 0>>

ValueOf(kind, b, s, n, items, map) ==
    [kind |-> kind, b |-> b, s |-> s, n |-> n, items |-> items, map |-> map]

ValueNull == ValueOf("Null", FALSE, <<>>, NoNum, <<>>, <<>>)

ValueBoolean(b) == ValueOf("Boolean", b, <<>>, NoNum, <<>>, <<>>)

ValueString(s) == ValueOf("String", FALSE, s, NoNum, <<>>, <<>>)

ValueNumber(n) == ValueOf("Number", FALSE, <<>>, n, <<>>, <<>>)

ValueArray(items) == ValueOf("Array", FALSE, <<>>, NoNum, items, <<>>)

ValueObject(map) == ValueOf("Object", FALSE, <<>>, NoNum, <<>>, map)

NoValue == ValueOf("None", FALSE, <<>>, NoNum, <<>>, <<>>)

ParseOk(val, idx) == [st |-> "Ok", err |-> "None", val |-> val, idx |-> idx]

ParseErr(kind) == [st |-> "Err", err |-> kind, val |-> NoValue, idx |-> 0]

ParsePanic == [st |-> "Panic", err |-> "None", val |-> NoValue, idx |-> 0]

\* HashMap::insert: a later value replaces the one stored under the key.
Insert(map, key, value) ==
    [k \in (DOMAIN map) \cup {key} |-> IF k = key THEN value ELSE map[k]]

----------------------------------------------------------------------------
(* parse.rs: parse_string *)

IsHexDigit(c) ==
    \/ IsAsciiDigit(c)
    \/ c \in {"a", "b", "c", "d", "e", "f", "A", "B", "C", "D", "E", "F"}

\* char::to_digit(16)
ToDigit16(c) ==
    CASE IsAsciiDigit(c) -> DigitValue(c)
      [] c \in {"a", "A"} -> 10 [] c \in {"b", "B"} -> 11
      [] c \in {"c", "C"} -> 12 [] c \in {"d", "D"} -> 13
      [] c \in {"e", "E"} -> 14 [] c \in {"f", "F"} -> 15

\* char::from_u32 of a value below 2^16: None on a surrogate.
IsScalarValue(n) == ~(55296 <= n /\ n <= 57343)

\* The character of a code point, named as the texts of the model name it.
CharFromU32(n) ==
    CASE n = 9 -> "\t" [] n = 10 -> "\n" [] n = 13 -> "\r" [] n = 32 -> " "
      [] n = 34 -> "\"" [] n = 92 -> "\\" [] n = 65 -> "A" [] n = 97 -> "a"
      [] OTHER -> "chr(" \o ToString(n) \o ")"

Pow16(k) == CASE k = 0 -> 1 [] k = 1 -> 16 [] k = 2 -> 256 [] k = 3 -> 4096

\* The `for i in 0..4` of the 'u' escape: the four characters that follow.
RECURSIVE HexEscape(_, _, _)
HexEscape(rest, i, sum) ==
    IF i = 4 THEN [st |-> "Ok", err |-> "None", sum |-> sum, rest |-> rest]
    ELSE IF rest = <<>>
    THEN [st |-> "Err", err |-> "UnfinishedEscape", sum |-> 0, rest |-> <<>>]
    ELSE IF ~IsHexDigit(Head(rest))
    THEN [st |-> "Err", err |-> "InvalidHexValue", sum |-> 0, rest |-> <<>>]
    ELSE HexEscape(Tail(rest), i + 1, sum + Pow16(3 - i) * ToDigit16(Head(rest)))

RECURSIVE Unescape(_, _, _)
Unescape(chars, output, is_escaping) ==
    IF chars = <<>> THEN ParseOk(ValueString(output), 0)
    ELSE LET next_char == Head(chars)
             rest      == Tail(chars)
         IN  IF is_escaping
             THEN CASE next_char = "\"" -> Unescape(rest, Append(output, "\""), FALSE)
                    [] next_char = "\\" -> Unescape(rest, Append(output, "\\"), FALSE)
                    [] next_char = "b" -> Unescape(rest, Append(output, BS), FALSE)
                    [] next_char = "f" -> Unescape(rest, Append(output, DC2), FALSE)
                    [] next_char = "n" -> Unescape(rest, Append(output, "\n"), FALSE)
                    [] next_char = "r" -> Unescape(rest, Append(output, "\r"), FALSE)
                    [] next_char = "t" -> Unescape(rest, Append(output, "\t"), FALSE)
                    [] next_char = "u" ->
                         LET h == HexEscape(rest, 0, 0)
                         IN  IF h.st # "Ok" THEN ParseErr(h.err)
                             ELSE IF ~IsScalarValue(h.sum)
                             THEN ParseErr("InvalidCodePointValue")
                             ELSE Unescape(h.rest,
                                           Append(output, CharFromU32(h.sum)), FALSE)
                    [] OTHER -> Unescape(rest, Append(output, next_char), FALSE)
             ELSE IF next_char = "\\" THEN Unescape(rest, output, TRUE)
             ELSE Unescape(rest, Append(output, next_char), FALSE)

parse_string(text) == Unescape(text, <<>>, FALSE)

----------------------------------------------------------------------------
(* parse.rs: parse_tokens, parse_array, parse_object *)

ScalarTokens == {"Null", "False", "True", "Number", "String"}

RECURSIVE parse_tokens(_, _)
RECURSIVE ArrayLoop(_, _, _)
RECURSIVE ObjectLoop(_, _, _)

\* One turn of parse_array's loop, entered with the cursor on `[` or on `,`.
ArrayLoop(toks, idx, array) ==
    LET i == idx + 1
    IN  IF i >= Len(toks) THEN ParsePanic
        ELSE IF At(toks, i) = Tok("RightBracket")
        THEN ParseOk(ValueArray(array), i + 1)
        ELSE LET r == parse_tokens(toks, i)
             IN  IF r.st # "Ok" THEN r
                 ELSE IF r.idx >= Len(toks) THEN ParsePanic
                 ELSE CASE At(toks, r.idx).type = "Comma" ->
                             ArrayLoop(toks, r.idx, Append(array, r.val))
                        [] At(toks, r.idx).type = "RightBracket" ->
                             ParseOk(ValueArray(Append(array, r.val)), r.idx + 1)
                        [] OTHER -> ParseErr("ExpectedComma")

parse_array(toks, idx) == ArrayLoop(toks, idx, <<>>)

\* One turn of parse_object's loop, entered with the cursor on `{` or on `,`.
ObjectLoop(toks, idx, object) ==
    LET i == idx + 1
    IN  IF i >= Len(toks) THEN ParsePanic
        ELSE IF At(toks, i) = Tok("RightBrace")
        THEN ParseOk(ValueObject(object), i + 1)
        ELSE IF At(toks, i).type # "String" THEN ParseErr("ExpectedProperty")
        ELSE IF i + 1 >= Len(toks) THEN ParsePanic
        ELSE IF At(toks, i + 1).type # "Colon" THEN ParseErr("ExpectedColon")
        ELSE LET key == At(toks, i).text
                 r   == parse_tokens(toks, i + 2)
             IN  IF r.st # "Ok" THEN r
                 ELSE IF r.idx >= Len(toks) THEN ParsePanic
                 ELSE CASE At(toks, r.idx).type = "Comma" ->
                             ObjectLoop(toks, r.idx, Insert(object, key, r.val))
                        [] At(toks, r.idx).type = "RightBrace" ->
                             ParseOk(ValueObject(Insert(object, key, r.val)),
                                     r.idx + 1)
                        [] OTHER -> ParseErr("ExpectedComma")

parse_object(toks, idx) == ObjectLoop(toks, idx, <<>>)

parse_tokens(toks, idx) ==
    IF idx >= Len(toks) THEN ParsePanic
    ELSE LET t     == At(toks, idx)
             index1 == IF t.type \in ScalarTokens THEN idx + 1 ELSE idx
         IN  CASE t.type = "Null" -> ParseOk(ValueNull, index1)
               [] t.type = "False" -> ParseOk(ValueBoolean(FALSE), index1)
               [] t.type = "True" -> ParseOk(ValueBoolean(TRUE), index1)
               [] t.type = "Number" -> ParseOk(ValueNumber(t.num), index1)
               [] t.type = "String" ->
                    LET s == parse_string(t.text)
                    IN  IF s.st = "Ok" THEN ParseOk(s.val, index1) ELSE s
               [] t.type = "LeftBracket" -> parse_array(toks, index1)
               [] t.type = "LeftBrace" -> parse_object(toks, index1)
               [] OTHER -> ParsePanic

----------------------------------------------------------------------------
(* The run of parse(input): tokenize's loop, then parse_tokens *)

Running == [st |-> "Running", err |-> NoError]

NotRun == [st |-> "NotRun", err |-> "None", val |-> NoValue]

\* tokenize.rs line 7: `let token = make_token(&chars, &mut index)?;`
MakeTokenCall ==
    /\ pc = "tokenize"
    /\ index < Len(input)
    /\ LET r == make_token(input, index)
       IN  IF r.st = "Ok"
           THEN /\ token' = r.tok
                /\ index' = r.idx
                /\ pc' = "push"
                /\ UNCHANGED tres
           ELSE /\ tres' = [st |-> r.st, err |-> r.err]
                /\ pc' = "done"
                /\ UNCHANGED <<token, index>>
    /\ UNCHANGED <<input, tokens, pres, pidx>>

\* tokenize.rs lines 8-9: `tokens.push(token); index += 1;`
PushToken ==
    /\ pc = "push"
    /\ tokens' = Append(tokens, token)
    /\ token' = NoToken
    /\ index' = index + 1
    /\ pc' = "tokenize"
    /\ UNCHANGED <<input, tres, pres, pidx>>

\* tokenize.rs line 12: the loop is over, `Ok(tokens)` goes to parse.
TokenizeReturn ==
    /\ pc = "tokenize"
    /\ ~(index < Len(input))
    /\ tres' = [st |-> "Ok", err |-> NoError]
    /\ pc' = "parse_tokens"
    /\ UNCHANGED <<input, index, tokens, token, pres, pidx>>

\* parse.rs line 12: `parse_tokens(&tokens, &mut 0)`, also the call of tests::check.
ParseTokensCall ==
    /\ pc = "parse_tokens"
    /\ LET r == parse_tokens(tokens, 0)
       IN  /\ pres' = [st |-> r.st, err |-> r.err, val |-> r.val]
           /\ pidx' = r.idx
    /\ pc' = "done"
    /\ UNCHANGED <<input, index, tokens, token, tres>>

InitText(text) ==
    /\ input = text
    /\ index = 0
    /\ tokens = <<>>
    /\ token = NoToken
    /\ pc = "tokenize"
    /\ tres = Running
    /\ pres = NotRun
    /\ pidx = 0

InitTokens(toks) ==
    /\ input = <<>>
    /\ index = 0
    /\ tokens = toks
    /\ token = NoToken
    /\ pc = "parse_tokens"
    /\ tres = [st |-> "Ok", err |-> NoError]
    /\ pres = NotRun
    /\ pidx = 0

----------------------------------------------------------------------------
(* Bounded inputs *)

SeqsUpTo(S, n) == UNION {[1..k -> S] : k \in 0..n}

RECURSIVE Concat(_)
Concat(ss) == IF ss = <<>> THEN <<>> ELSE Head(ss) \o Concat(Tail(ss))

MaxFrags == 3

\* Pieces of JSON text: whole and cut-off keywords, whitespace, digits,
\* punctuation, quotes.
Fragments ==
    { <<"n", "u", "l", "l">>, <<"t", "r", "u", "e">>, <<"f", "a", "l", "s", "e">>,
      <<"n", "u">>, <<"t", "r", "u">>, <<"f", "a">>,
      <<" ">>, <<"\n">>, <<"-">>, <<"1">>, <<"2">>, <<".">>,
      <<",">>, <<":">>, <<"[">>, <<"]">>, <<"{">>, <<"}">>,
      <<"\"">>, <<"x">> }

Init == \E fs \in SeqsUpTo(Fragments, MaxFrags) : InitText(Concat(fs))

Next == MakeTokenCall \/ PushToken \/ TokenizeReturn \/ ParseTokensCall

Spec == Init /\ [][Next]_vars

----------------------------------------------------------------------------
(* Token sequences given to parse_tokens directly, as the tests of parse.rs do *)

MaxTokens == 6

TokenAlphabet ==
    { Tok("LeftBrace"), Tok("RightBrace"), Tok("LeftBracket"), Tok("RightBracket"),
      Tok("Comma"), Tok("Colon"), Tok("Null"), TokNumber(<<1, 0>>),
      TokString(<<"a">>) }

InitTokenSeqs == \E toks \in SeqsUpTo(TokenAlphabet, MaxTokens) : InitTokens(toks)

NextTokens == ParseTokensCall

SpecTokens == InitTokenSeqs /\ [][NextTokens]_vars

----------------------------------------------------------------------------
(* String tokens with escapes, as a value and as the key of an object *)

MaxPieces == 3

EscapePieces ==
    { <<"\\">>, <<"\"">>, <<"b">>, <<"f">>, <<"n">>, <<"r">>, <<"t">>, <<"x">>,
      <<"u", "0", "0", "4", "1">>, <<"u", "1", "2">>, <<"u", "d", "8", "0", "0">>,
      <<"u", "0", "g", "0", "0">> }

AsValue(raw) == <<TokString(raw)>>

AsKey(raw) ==
    <<Tok("LeftBrace"), TokString(raw), Tok("Colon"), Tok("Null"), Tok("RightBrace")>>

InitEscapes ==
    \E ps \in SeqsUpTo(EscapePieces, MaxPieces) :
        \/ InitTokens(AsValue(Concat(ps)))
        \/ InitTokens(AsKey(Concat(ps)))

SpecEscapes == InitEscapes /\ [][NextTokens]_vars

----------------------------------------------------------------------------
(* Texts that open a string *)

MaxBody == 6

StringAlphabet == {"\"", "\\", "a"}

InitStrings ==
    \E body \in SeqsUpTo(StringAlphabet, MaxBody) : InitText(<<"\"">> \o body)

SpecStrings == InitStrings /\ [][Next]_vars

----------------------------------------------------------------------------
(* Properties *)

TokenizeEnded == tres.st # "Running"

ParseEnded == pc = "done" /\ pres.st # "NotRun"

\* make_token has returned for the first time.
FirstTokenMade == tokens = <<>> /\ pc \in {"push", "done"} /\ input # <<>>

IsPrefix(p, s) == Len(p) <= Len(s) /\ SubSeq(s, 1, Len(p)) = p

Openers == {"LeftBracket", "LeftBrace"}

Closers == {"RightBracket", "RightBrace"}

\* Containers opened and not yet closed after the first k tokens.
Depth(toks, k) ==
    Cardinality({j \in 1..k : toks[j].type \in Openers})
        - Cardinality({j \in 1..k : toks[j].type \in Closers})

\* The container that the first token opens is open after every token.
NeverClosed(toks) ==
    /\ toks # <<>>
    /\ toks[1].type \in Openers
    /\ \A k \in 1..Len(toks) : Depth(toks, k) > 0

\* C1: a token sequence that ends before the array or object it opens is
\* closed makes parse_array / parse_object return an error value: the
\* cursor is never dereferenced past the end of the tokens (no panic).
C1_UnclosedIsError ==
    (ParseEnded /\ NeverClosed(tokens)) => pres.st = "Err"

TrailingWhitespace == {" ", "\t", "\n", "\r"}

\* The text without the whitespace that ends it.
RECURSIVE StripEnd(_)
StripEnd(s) ==
    IF s # <<>> /\ s[Len(s)] \in TrailingWhitespace
    THEN StripEnd(SubSeq(s, 1, Len(s) - 1))
    ELSE s

\* C2: on a text of lexically valid tokens followed by whitespace up to its
\* end, tokenize returns Ok with the tokens of the text without that
\* whitespace.
C2_TrailingWhitespaceIsOk ==
    ( /\ TokenizeEnded
      /\ StripEnd(input) # input
      /\ StripEnd(input) # <<>>
      /\ tokenize(StripEnd(input)).st = "Ok" )
    => (tres.st = "Ok" /\ tokens = tokenize(StripEnd(input)).tokens)

\* C3: `-` followed by ASCII digits is tokenized to one Number token, the
\* negative of the digits' value.
C3_NegativeNumber ==
    ( /\ TokenizeEnded
      /\ Len(input) >= 2
      /\ input[1] = "-"
      /\ \A k \in 2..Len(input) : IsAsciiDigit(input[k]) )
    => ( /\ tres.st = "Ok"
         /\ tokens = <<TokNumber(<<0 - DigitsValue(Tail(input)), 0>>)>> )

\* The first token opens a container, the last one closes it, and the token
\* before the last is a comma of that container.
TrailingComma(toks) ==
    /\ Len(toks) >= 3
    /\ \/ toks[1].type = "LeftBracket" /\ toks[Len(toks)].type = "RightBracket"
       \/ toks[1].type = "LeftBrace" /\ toks[Len(toks)].type = "RightBrace"
    /\ toks[Len(toks) - 1].type = "Comma"
    /\ \A k \in 1..(Len(toks) - 1) : Depth(toks, k) > 0

\* C4: on a comma immediately followed by the `]` or `}` that closes its
\* container, the parser never returns Ok.
C4_NoTrailingComma ==
    (ParseEnded /\ TrailingComma(tokens)) => pres.st # "Ok"

ValueStarts ==
    {"Null", "True", "False", "Number", "String", "LeftBracket", "LeftBrace"}

\* C5: when the token in value position starts no value, or there is no
\* token, parse_tokens returns a TokenParseError value and does not abort.
C5_UnexpectedTokenIsError ==
    (ParseEnded /\ (tokens = <<>> \/ tokens[1].type \notin ValueStarts))
    => pres.st = "Err"

Keyword(c) ==
    CASE c = "n" -> <<"n", "u", "l", "l">>
      [] c = "t" -> <<"t", "r", "u", "e">>
      [] c = "f" -> <<"f", "a", "l", "s", "e">>

KeywordToken(c) ==
    CASE c = "n" -> Tok("Null") [] c = "t" -> Tok("True") [] c = "f" -> Tok("False")

\* C6: a token that starts with n, t or f is Null, True or False when the
\* text spells the keyword, and Err(UnfinishedLiteralValue) in every other
\* case, the text ending inside the keyword included.
C6_KeywordOrUnfinished ==
    (FirstTokenMade /\ input[1] \in {"n", "t", "f"})
    => IF IsPrefix(Keyword(input[1]), input)
       THEN pc = "push" /\ token = KeywordToken(input[1])
       ELSE /\ pc = "done"
            /\ tres = [st |-> "Err",
                       err |-> TokenizeError("UnfinishedLiteralValue", "")]

\* C7: an object's entry is stored under the unescaped text of its key (what
\* parse_string makes of the key token's raw text).
C7_KeyIsUnescaped ==
    ( /\ ParseEnded
      /\ Len(tokens) = 5
      /\ tokens = AsKey(tokens[2].text)
      /\ parse_string(tokens[2].text).st = "Ok" )
    => ( /\ pres.st = "Ok"
         /\ DOMAIN pres.val.map = {parse_string(tokens[2].text).val.s} )

SimpleEscapes == {"\"", "\\", "b", "f", "n", "r", "t"}

\* The character JSON gives to a simple escape.
JsonEscape(c) ==
    CASE c = "\"" -> "\"" [] c = "\\" -> "\\" [] c = "b" -> BS [] c = "f" -> FF
      [] c = "n" -> "\n" [] c = "r" -> "\r" [] c = "t" -> "\t"

\* raw holds one escape, at k, and no backslash outside it.
OneSimpleEscapeAt(raw, k) ==
    /\ k < Len(raw)
    /\ raw[k] = "\\"
    /\ raw[k + 1] \in SimpleEscapes
    /\ \A j \in 1..Len(raw) : raw[j] = "\\" => j \in {k, k + 1}

\* C9: unescaping gives each simple escape its JSON character (`\f` gives
\* form feed) and copies the other characters unchanged, in order.
C9_SimpleEscapes ==
    (ParseEnded /\ Len(tokens) = 1 /\ tokens[1].type = "String")
    => LET raw == tokens[1].text
       IN  \A k \in 1..Len(raw) :
               OneSimpleEscapeAt(raw, k)
               => /\ pres.st = "Ok"
                  /\ pres.val = ValueString(SubSeq(raw, 1, k - 1)
                                            \o <<JsonEscape(raw[k + 1])>>
                                            \o SubSeq(raw, k + 2, Len(raw)))

\* C8: when parse returns Ok, the parser's cursor is at the end of the
\* tokens: a complete value followed by more tokens is an error.
C8_NoSurplusTokens ==
    (ParseEnded /\ pres.st = "Ok") => pidx = Len(tokens)

\* The backslashes that stand immediately before position q, one after the
\* other.
BackslashesBefore(s, q) ==
    Cardinality({j \in 1..(q - 1) : \A i \in j..(q - 1) : s[i] = "\\"})

\* The quotes of s that an even number of backslashes precedes.
ClosingQuotes(s) ==
    {q \in 1..Len(s) : s[q] = "\"" /\ BackslashesBefore(s, q) % 2 = 0}

Min(S) == CHOOSE x \in S : \A y \in S : x <= y

\* C10: after an opening quote the String token ends at the first quote that
\* an even number of consecutive backslashes precedes; it holds the raw text
\* between the quotes and the cursor is left on the closing quote.  With no
\* such quote, tokenize returns Err(UnclosedQuotes) and does not read past
\* the end.
C10_StringScan ==
    (FirstTokenMade /\ input[1] = "\"")
    => LET body == Tail(input)
       IN  IF ClosingQuotes(body) # {}
           THEN LET q == Min(ClosingQuotes(body))
                IN  /\ pc = "push"
                    /\ token = TokString(SubSeq(body, 1, q - 1))
                    /\ index = q
           ELSE /\ pc = "done"
                /\ tres = [st |-> "Err", err |-> TokenizeError("UnclosedQuotes", "")]

\* A string token that holds an escaped quote and an escaped backslash has
\* been scanned, and text follows its closing quote.
C10_Witness ==
    /\ FirstTokenMade
    /\ pc = "push"
    /\ token.type = "String"
    /\ \E k \in 1..Len(token.text) : token.text[k] = "\""
    /\ \E k \in 2..Len(token.text) : token.text[k - 1] = "\\" /\ token.text[k] = "\\"
    /\ index + 1 < Len(input)

====
